---- MODULE Spec2Model ----
(***************************************************************************)
(* Model of two parts of the repository:                                   *)
(*   - js/render/draw_line.js: drawLine and its three program binders,     *)
(*     as a state machine over the painter / gl state with a log of the    *)
(*     calls made on painter and gl; the values of its uniforms and        *)
(*     getExtra as functions of their inputs;                              *)
(*   - bench/benchmarks/dds_update_bucket.js: the single-slot cache of     *)
(*     createLayerFamilies, asyncTimesSeries, and the benchmark run        *)
(*     (preload sample, timed samples, events).                            *)
(***************************************************************************)
EXTENDS Integers, Sequences, FiniteSets, TLC

(***************************************************************************)
(* Bounds of the model.                                                    *)
(***************************************************************************)
MaxCoords == 2
MaxGroups == 2
MaxCalls == 4
\* bits of a floating-point mantissa, and the window in which exponents are sought
Precision == 3
MaxExp == 10
\* largest `times` argument given to asyncTimesSeries on its own
MaxTimes == 8
\* number of tile coordinates of the benchmark (bench/lib/coordinates)
NumTiles == 2

\* line 17
SAMPLE_COUNT == 10

VARIABLES
    \* ---- draw_line.js ----
    isOpaquePass,    \* painter.isOpaquePass
    layer,           \* the style layer of the current drawLine call
    coords,          \* the coords argument, with what source.getTile(coord) holds
    spriteAtlas,     \* images for which painter.spriteAtlas.getPosition is non-null
    depthMaskOn,     \* gl depth-write state, set by painter.depthMask
    depthSublayer,   \* set by painter.setDepthSublayer
    stencilTest,     \* gl.STENCIL_TEST enabled
    currentProgram,  \* program bound by painter.useProgram
    clipMask,        \* coordinate of the last painter.enableTileClippingMask
    k,               \* loop variable k of drawLine (1-based)
    i,               \* loop variable i of drawLine (1-based)
    program,         \* local variable program of drawLine
    pc,              \* position inside drawLine
    calls,           \* calls made on painter / gl during the current drawLine call
    entry,           \* painter / gl state when the current drawLine call was entered
    \* ---- dds_update_bucket.js ----
    createLayerFamiliesCacheKey,
    createLayerFamiliesCacheValue,
    clfPc,           \* position inside createLayerFamilies
    clfLayers,       \* the layers argument of the current / last call
    clfWorker,       \* local variable worker: the layerFamilies object it holds
    clfResult,       \* what the last call returned
    clfEntry,        \* the cache slot (key, value) when the current call was entered
    nextObject,      \* identity of the next object allocated by a Worker
    families,        \* layerFamilies objects computed so far: identity -> key
    workersCreated,  \* number of `new Worker` evaluated
    recomputed,      \* number of completed recomputations (slot replaced)
    history,         \* per finished call: argument, outcome, and what it did
    \* ---- draw_line.js: values of uniforms ----
    numPc,           \* which computation has run: "none", "pattern", "shared", "extra"
    patternU,        \* inputs and uniforms of bindLinePatternProgram (lines 120-134)
    sharedU,         \* inputs and uniforms of drawLine (lines 51-60)
    extraU,          \* inputs, intermediate values and result of getExtra
    \* ---- dds_update_bucket.js: asyncTimesSeries on its own ----
    seriesPc,        \* "idle", "working" (work invoked, no callback yet), "called"
                     \* (final callback invoked), "abandoned" (work ended, no callback)
    seriesTimes,     \* argument `times` of the innermost asyncTimesSeries call
    seriesLog,       \* what happened, in order: call, work, workCallback, callback
    \* ---- dds_update_bucket.js: run ----
    runPc,           \* "idle", "stylesheet" (getJSON pending), "style" (Style loading),
                     \* "sampling" (preload sample started), "failed" (no sample started)
    seriesLeft,      \* `times` of the innermost asyncTimesSeries call made by run
    inflight,        \* fetch / parse / updateProperties calls not yet called back
    samples,         \* per runSample invocation: which getWorkerTile it was given,
                     \* asyncAll's remaining count, tiles done, operations started,
                     \* invocations of its callback
    workerTileObjs,  \* the WorkerTile objects created: data set?, __propertyData
    assetsWorkerTiles, \* assets.workerTiles: tile -> WorkerTile object (0: undefined)
    nextPropertyData,  \* identity of the next object assigned to __propertyData
    timeSum,         \* line 66
    timeCount,       \* line 67
    fired,           \* 'error' and 'end' events fired on evented, in order
    uncaught         \* exceptions thrown out of a callback (line 182)

drawVars == <<isOpaquePass, layer, coords, spriteAtlas, depthMaskOn, depthSublayer,
              stencilTest, currentProgram, clipMask, k, i, program, pc, calls, entry>>
benchVars == <<createLayerFamiliesCacheKey, createLayerFamiliesCacheValue, clfPc,
               clfLayers, clfWorker, clfResult, clfEntry, nextObject, families,
               workersCreated, recomputed, history>>
numVars == <<numPc, patternU, sharedU, extraU>>
seriesVars == <<seriesPc, seriesTimes, seriesLog>>
runVars == <<runPc, seriesLeft, inflight, samples, workerTileObjs, assetsWorkerTiles,
             nextPropertyData, timeSum, timeCount, fired, uncaught>>
restVars == <<numVars, seriesVars, runVars>>
vars == <<drawVars, benchVars, restVars>>

(***************************************************************************)
(* draw_line.js: inputs                                                    *)
(***************************************************************************)
\* paint['line-width'] values: negative, zero, positive
LineWidths == {-1, 0, 1}

\* A style layer, as far as drawLine reads it: paint['line-width'], and whether
\* paint['line-dasharray'] and paint['line-pattern'] are set (truthy).
Layers == [width : LineWidths, dasharray : BOOLEAN, pattern : BOOLEAN]

\* The images of paint['line-pattern']: image.from and image.to
PatternImages == {"from", "to"}

\* What tile.getBucket(layer) gives for a coordinate: no bucket, a bucket without
\* bufferGroups.line, or a bucket with len line buffer groups.
TileKinds ==
    {[bucket |-> FALSE, line |-> FALSE, len |-> 0],
     [bucket |-> TRUE, line |-> FALSE, len |-> 0]}
    \cup {[bucket |-> TRUE, line |-> TRUE, len |-> n] : n \in 0..MaxGroups}

\* coords of a call: each coordinate carries its identity (id) and its tile
WithIds(ts) == [j \in 1..Len(ts) |-> [id |-> j, bucket |-> ts[j].bucket,
                                      line |-> ts[j].line, len |-> ts[j].len]]
CoordLists == UNION {{WithIds(ts) : ts \in [1..n -> TileKinds]} : n \in 0..MaxCoords}

Programs == {"line", "linepattern", "linesdfpattern"}

\* One call on painter or gl: the operation, the coordinate it is made for
\* (0 before the loop), an argument, and the buffer group (0 if none).
Call(op, coord, arg, group) == [op |-> op, coord |-> coord, arg |-> arg, group |-> group]

(***************************************************************************)
(* draw_line.js: the calls each piece of code makes, in order              *)
(***************************************************************************)
\* lines 19-23
PreambleCalls ==
    <<Call("setDepthSublayer", 0, "0", 0),
      Call("depthMask", 0, "false", 0),
      Call("enable", 0, "STENCIL_TEST", 0)>>

\* painter.spriteAtlas.getPosition(image, true): null when the image is absent
getPosition(atlas, image) == IF image \in atlas THEN "position" ELSE "null"

\* line 119 testing imagePosA only
PatternMissing_onlyFrom(atlas) == getPosition(atlas, "from") = "null"

\* line 119: !imagePosA || !imagePosB
PatternMissing(atlas) ==
    getPosition(atlas, "from") = "null" \/ getPosition(atlas, "to") = "null"

\* lines 76-104
bindLineSDFPatternProgramCalls(c) ==
    <<Call("useProgram", c, "linesdfpattern", 0),
      Call("setUniforms", c, "sdf", 0),
      Call("uniform1i", c, "u_image", 0),
      Call("activeTexture", c, "TEXTURE0", 0),
      Call("lineAtlas.bind", c, "", 0)>>

\* lines 106-140
bindLinePatternProgramCalls(c, atlas) ==
    IF PatternMissing(atlas)
    THEN <<Call("useProgram", c, "linepattern", 0)>>
    ELSE <<Call("useProgram", c, "linepattern", 0),
           Call("setUniforms", c, "pattern", 0),
           Call("uniform1i", c, "u_image", 0),
           Call("activeTexture", c, "TEXTURE0", 0),
           Call("spriteAtlas.bind", c, "", 0)>>

\* lines 119 and 139: what bindLinePatternProgram returns
bindLinePatternProgramReturn(atlas) ==
    IF PatternMissing(atlas) THEN "undefined" ELSE "linepattern"

\* lines 142-149
bindLineProgramCalls(c) == <<Call("useProgram", c, "line", 0)>>

\* lines 41-47 with the two tests in the other order
SelectedProgram_patternFirst(l) ==
    IF l.pattern THEN "linepattern"
    ELSE IF l.dasharray THEN "linesdfpattern"
    ELSE "line"

\* lines 41-47: which binder runs, by priority
SelectedProgram(l) ==
    IF l.dasharray THEN "linesdfpattern"
    ELSE IF l.pattern THEN "linepattern"
    ELSE "line"

\* the value the selected binder returns (line 119 returns undefined)
ReturnedProgram(l, atlas) ==
    IF SelectedProgram(l) = "linepattern"
    THEN bindLinePatternProgramReturn(atlas)
    ELSE SelectedProgram(l)

BindCalls(l, atlas, c) ==
    IF SelectedProgram(l) = "linesdfpattern" THEN bindLineSDFPatternProgramCalls(c)
    ELSE IF SelectedProgram(l) = "linepattern" THEN bindLinePatternProgramCalls(c, atlas)
    ELSE bindLineProgramCalls(c)

\* lines 49-60: made before program is first dereferenced
SharedCallsBefore(c) ==
    <<Call("translatePosMatrix", c, "", 0),
      Call("setUniforms", c, "shared", 0)>>

\* lines 61-63: program.u_antialiasingmatrix, program.u_matrix, bucket uniforms
SharedCallsAfter(c) ==
    <<Call("uniformMatrix2fv", c, "u_antialiasingmatrix", 0),
      Call("uniformMatrix4fv", c, "u_matrix", 0),
      Call("setUniforms", c, "bucket", 0)>>

\* line 65
ClipCalls(c) == <<Call("enableTileClippingMask", c, "", 0)>>

\* lines 68-70 without the bind of line 69
GroupCalls_noBind(c, g) == <<Call("drawElements", c, "TRIANGLES", g)>>

\* lines 68-70, for buffer group g
GroupCalls(c, g) ==
    <<Call("vao.bind", c, "layout,element,paint[layer.id]", g),
      Call("drawElements", c, "TRIANGLES", g)>>

\* all the calls of lines 67-71 for a bucket with len buffer groups, from group g on
RECURSIVE GroupsCalls(_, _, _)
GroupsCalls(c, g, len) ==
    IF g > len THEN <<>> ELSE GroupCalls(c, g) \o GroupsCalls(c, g + 1, len)

(***************************************************************************)
(* draw_line.js: drawLine as a state machine                               *)
(***************************************************************************)
PainterState == <<depthMaskOn, depthSublayer, stencilTest, currentProgram, clipMask>>

\* a behaviour is one invocation of drawLine, from any painter state
Callable == pc = "idle"

\* before a call: no call is running, and the painter / gl state is whatever the
\* layers drawn before left (depth writes, depth sublayer, stencil test)
InitDraw ==
    /\ isOpaquePass = FALSE
    /\ layer = [width |-> 1, dasharray |-> FALSE, pattern |-> FALSE]
    /\ coords = <<>>
    /\ spriteAtlas = {}
    /\ depthMaskOn \in BOOLEAN
    /\ depthSublayer \in {0, 1}
    /\ stencilTest \in BOOLEAN
    /\ currentProgram = "none"
    /\ clipMask = 0
    /\ k = 0
    /\ i = 0
    /\ program = "undefined"
    /\ pc = "idle"
    /\ calls = <<>>
    /\ entry = PainterState

\* lines 19-23 without line 20
Preamble_noDepthMask ==
    /\ depthSublayer' = 0
    /\ UNCHANGED depthMaskOn
    /\ stencilTest' = TRUE
    /\ calls' = <<PreambleCalls[1], PreambleCalls[3]>>

\* lines 19-23: setDepthSublayer(0), depthMask(false), gl.enable(gl.STENCIL_TEST)
Preamble ==
    /\ depthSublayer' = 0
    /\ depthMaskOn' = FALSE
    /\ stencilTest' = TRUE
    /\ calls' = PreambleCalls

\* line 25 with < in place of <=
WidthSkips_strict(l) == l.width < 0

\* line 25: layer.paint['line-width'] <= 0
WidthSkips(l) == l.width <= 0

\* lines 17-29: entry of drawLine(painter, source, layer, coords)
drawLine(opaque, l, cs, atlas) ==
    /\ Callable
    /\ isOpaquePass' = opaque
    /\ layer' = l
    /\ coords' = cs
    /\ spriteAtlas' = atlas
    /\ entry' = PainterState
    /\ program' = "undefined"
    /\ i' = 0
    /\ UNCHANGED <<currentProgram, clipMask>>
    /\ UNCHANGED <<benchVars, restVars>>
    /\ IF opaque
       THEN /\ calls' = <<>>
            /\ pc' = "returned"
            /\ k' = 0
            /\ UNCHANGED <<depthMaskOn, depthSublayer, stencilTest>>
       ELSE /\ Preamble
            /\ IF WidthSkips(l)
               THEN pc' = "returned" /\ k' = 0
               ELSE pc' = "loop" /\ k' = 1

\* line 31: k < coords.length fails
LoopExit ==
    /\ pc = "loop"
    /\ k > Len(coords)
    /\ pc' = "returned"
    /\ UNCHANGED <<isOpaquePass, layer, coords, spriteAtlas, depthMaskOn, depthSublayer,
                   stencilTest, currentProgram, clipMask, k, i, program, calls, entry>>
    /\ UNCHANGED <<benchVars, restVars>>

\* lines 32-35 with break in place of continue
SkipNoBucket_break ==
    /\ pc = "loop"
    /\ k <= Len(coords)
    /\ ~coords[k].bucket
    /\ pc' = "returned"
    /\ UNCHANGED <<isOpaquePass, layer, coords, spriteAtlas, depthMaskOn, depthSublayer,
                   stencilTest, currentProgram, clipMask, k, i, program, calls, entry>>
    /\ UNCHANGED <<benchVars, restVars>>

\* lines 32-35: if (!bucket) continue
SkipNoBucket ==
    /\ pc = "loop"
    /\ k <= Len(coords)
    /\ ~coords[k].bucket
    /\ k' = k + 1
    /\ UNCHANGED <<isOpaquePass, layer, coords, spriteAtlas, depthMaskOn, depthSublayer,
                   stencilTest, currentProgram, clipMask, i, program, pc, calls, entry>>
    /\ UNCHANGED <<benchVars, restVars>>

\* lines 36-37: if (!bufferGroups) continue
SkipNoLineGroups ==
    /\ pc = "loop"
    /\ k <= Len(coords)
    /\ coords[k].bucket
    /\ ~coords[k].line
    /\ k' = k + 1
    /\ UNCHANGED <<isOpaquePass, layer, coords, spriteAtlas, depthMaskOn, depthSublayer,
                   stencilTest, currentProgram, clipMask, i, program, pc, calls, entry>>
    /\ UNCHANGED <<benchVars, restVars>>

\* the coordinate of this iteration has a bucket with line buffer groups
HasLineGroups == k <= Len(coords) /\ coords[k].bucket /\ coords[k].line

\* what every binder does to the machine: bind, make its calls, return
Bind(name, returned, bindCalls) ==
    /\ currentProgram' = name
    /\ program' = returned
    /\ calls' = calls \o bindCalls
    /\ pc' = "uniforms"
    /\ UNCHANGED <<isOpaquePass, layer, coords, spriteAtlas, depthMaskOn, depthSublayer,
                   stencilTest, clipMask, k, i, entry>>
    /\ UNCHANGED <<benchVars, restVars>>

\* lines 41-42 and 76-104
bindLineSDFPatternProgram ==
    /\ pc = "loop"
    /\ HasLineGroups
    /\ SelectedProgram(layer) = "linesdfpattern"
    /\ Bind("linesdfpattern", "linesdfpattern", bindLineSDFPatternProgramCalls(coords[k].id))

\* lines 43-44 and 106-140
bindLinePatternProgram ==
    /\ pc = "loop"
    /\ HasLineGroups
    /\ SelectedProgram(layer) = "linepattern"
    /\ Bind("linepattern", bindLinePatternProgramReturn(spriteAtlas),
            bindLinePatternProgramCalls(coords[k].id, spriteAtlas))

\* lines 45-46 and 142-149
bindLineProgram ==
    /\ pc = "loop"
    /\ HasLineGroups
    /\ SelectedProgram(layer) = "line"
    /\ Bind("line", "line", bindLineProgramCalls(coords[k].id))

\* lines 49-63 with a program: shared uniforms and matrices
SetSharedUniforms ==
    /\ pc = "uniforms"
    /\ program # "undefined"
    /\ calls' = calls \o SharedCallsBefore(coords[k].id) \o SharedCallsAfter(coords[k].id)
    /\ pc' = "clip"
    /\ UNCHANGED <<isOpaquePass, layer, coords, spriteAtlas, depthMaskOn, depthSublayer,
                   stencilTest, currentProgram, clipMask, k, i, program, entry>>
    /\ UNCHANGED <<benchVars, restVars>>

\* lines 49-61 without a program: program.u_antialiasingmatrix on undefined
\* throws a TypeError, which leaves drawLine
ThrowOnUndefinedProgram ==
    /\ pc = "uniforms"
    /\ program = "undefined"
    /\ calls' = calls \o SharedCallsBefore(coords[k].id)
    /\ pc' = "thrown"
    /\ UNCHANGED <<isOpaquePass, layer, coords, spriteAtlas, depthMaskOn, depthSublayer,
                   stencilTest, currentProgram, clipMask, k, i, program, entry>>
    /\ UNCHANGED <<benchVars, restVars>>

\* line 65 done for the first drawn coordinate only
enableTileClippingMask_once ==
    /\ pc = "clip"
    /\ clipMask' = IF clipMask = 0 THEN coords[k].id ELSE clipMask
    /\ calls' = IF clipMask = 0 THEN calls \o ClipCalls(coords[k].id) ELSE calls
    /\ i' = 1
    /\ pc' = "groups"
    /\ UNCHANGED <<isOpaquePass, layer, coords, spriteAtlas, depthMaskOn, depthSublayer,
                   stencilTest, currentProgram, k, program, entry>>
    /\ UNCHANGED <<benchVars, restVars>>

\* line 65 and the loop header of line 67
enableTileClippingMask ==
    /\ pc = "clip"
    /\ clipMask' = coords[k].id
    /\ calls' = calls \o ClipCalls(coords[k].id)
    /\ i' = 1
    /\ pc' = "groups"
    /\ UNCHANGED <<isOpaquePass, layer, coords, spriteAtlas, depthMaskOn, depthSublayer,
                   stencilTest, currentProgram, k, program, entry>>
    /\ UNCHANGED <<benchVars, restVars>>

\* lines 67-71: one pass of the buffer-group loop
DrawGroup ==
    /\ pc = "groups"
    /\ i <= coords[k].len
    /\ calls' = calls \o GroupCalls(coords[k].id, i)
    /\ i' = i + 1
    /\ UNCHANGED <<isOpaquePass, layer, coords, spriteAtlas, depthMaskOn, depthSublayer,
                   stencilTest, currentProgram, clipMask, k, program, pc, entry>>
    /\ UNCHANGED <<benchVars, restVars>>

\* line 67 fails, then k++ of line 31
NextCoord ==
    /\ pc = "groups"
    /\ i > coords[k].len
    /\ k' = k + 1
    /\ pc' = "loop"
    /\ UNCHANGED <<isOpaquePass, layer, coords, spriteAtlas, depthMaskOn, depthSublayer,
                   stencilTest, currentProgram, clipMask, i, program, calls, entry>>
    /\ UNCHANGED <<benchVars, restVars>>

\* drawLine as a function of its inputs: the calls of a whole invocation
RECURSIVE LoopCalls(_, _, _, _)
LoopCalls(l, cs, atlas, j) ==
    IF j > Len(cs) THEN <<>>
    ELSE IF ~cs[j].bucket \/ ~cs[j].line THEN LoopCalls(l, cs, atlas, j + 1)
    ELSE BindCalls(l, atlas, cs[j].id) \o SharedCallsBefore(cs[j].id) \o
         (IF ReturnedProgram(l, atlas) = "undefined" THEN <<>>
          ELSE SharedCallsAfter(cs[j].id) \o ClipCalls(cs[j].id) \o
               GroupsCalls(cs[j].id, 1, cs[j].len) \o LoopCalls(l, cs, atlas, j + 1))

drawLineCalls(opaque, l, cs, atlas) ==
    IF opaque THEN <<>>
    ELSE IF WidthSkips(l) THEN PreambleCalls
    ELSE PreambleCalls \o LoopCalls(l, cs, atlas, 1)

(* dds_update_bucket.js: createLayerFamilies and its single-slot cache     *)
(***************************************************************************)
\* Array references that may be passed as layers. "A" and "B" are distinct
\* arrays with structurally equal contents; "C" differs in content.
LayerRefs == {"A", "B", "C"}
Content(ref) == IF ref = "C" THEN "style2" ELSE "style1"

\* line 233 comparing the contents of the arrays in place of the references
CacheMiss_structural(layers) ==
    \/ createLayerFamiliesCacheKey = "undefined"
    \/ Content(layers) # Content(createLayerFamiliesCacheKey)

\* line 233: layers !== createLayerFamiliesCacheKey (reference identity)
CacheMiss(layers) == layers # createLayerFamiliesCacheKey

ClfCallable == clfPc \in {"idle", "returned", "thrown"}

InitBench ==
    /\ createLayerFamiliesCacheKey = "undefined"
    /\ createLayerFamiliesCacheValue = 0
    /\ clfPc = "idle"
    /\ clfLayers = "undefined"
    /\ clfWorker = 0
    /\ clfResult = 0
    /\ clfEntry = <<"undefined", 0>>
    /\ nextObject = 1
    /\ families = <<>>
    /\ workersCreated = 0
    /\ recomputed = 0
    /\ history = <<>>

\* what a finished call leaves in the history: its argument, how it ended, what
\* it returned, whether it constructed a Worker and whether it replaced the slot
FinishedCall(outcome, result, worker, replaced) ==
    [layers |-> clfLayers, outcome |-> outcome, result |-> result,
     worker |-> worker, replaced |-> replaced]

\* lines 232-233: entry of createLayerFamilies(layers) and the test of the slot
createLayerFamilies(layers) ==
    /\ ClfCallable
    /\ Len(history) < MaxCalls
    /\ clfLayers' = layers
    /\ clfWorker' = 0
    /\ clfPc' = IF CacheMiss(layers) THEN "newWorker" ELSE "return"
    /\ clfEntry' = <<createLayerFamiliesCacheKey, createLayerFamiliesCacheValue>>
    /\ UNCHANGED <<createLayerFamiliesCacheKey, createLayerFamiliesCacheValue, clfResult,
                   nextObject, families, workersCreated, recomputed, history>>
    /\ UNCHANGED <<drawVars, restVars>>

\* line 234: new Worker(...)
NewWorker ==
    /\ clfPc = "newWorker"
    /\ workersCreated' = workersCreated + 1
    /\ clfPc' = "setLayers"
    /\ UNCHANGED <<clfEntry, createLayerFamiliesCacheKey, createLayerFamiliesCacheValue, clfLayers,
                   clfWorker, clfResult, nextObject, families, recomputed, history>>
    /\ UNCHANGED <<drawVars, restVars>>

\* line 234 throws: the exception leaves createLayerFamilies
NewWorkerThrows ==
    /\ clfPc = "newWorker"
    /\ clfPc' = "thrown"
    /\ history' = Append(history, FinishedCall("thrown", 0, FALSE, FALSE))
    /\ UNCHANGED <<clfEntry, createLayerFamiliesCacheKey, createLayerFamiliesCacheValue, clfLayers,
                   clfWorker, clfResult, nextObject, families, workersCreated, recomputed>>
    /\ UNCHANGED <<drawVars, restVars>>

\* line 235: worker['set layers'](layers) builds a new layerFamilies object
SetLayers ==
    /\ clfPc = "setLayers"
    /\ clfWorker' = nextObject
    /\ families' = Append(families, [from |-> clfLayers, content |-> Content(clfLayers)])
    /\ nextObject' = nextObject + 1
    /\ clfPc' = "assignKey"
    /\ UNCHANGED <<clfEntry, createLayerFamiliesCacheKey, createLayerFamiliesCacheValue, clfLayers,
                   clfResult, workersCreated, recomputed, history>>
    /\ UNCHANGED <<drawVars, restVars>>

\* line 235 throwing with line 237 moved before it
SetLayersThrows_afterKey ==
    /\ clfPc = "setLayers"
    /\ clfPc' = "thrown"
    /\ createLayerFamiliesCacheKey' = clfLayers
    /\ history' = Append(history, FinishedCall("thrown", 0, TRUE, FALSE))
    /\ UNCHANGED <<clfEntry, createLayerFamiliesCacheValue, clfLayers,
                   clfWorker, clfResult, nextObject, families, workersCreated, recomputed>>
    /\ UNCHANGED <<drawVars, restVars>>

\* line 235 throws: the exception leaves createLayerFamilies
SetLayersThrows ==
    /\ clfPc = "setLayers"
    /\ clfPc' = "thrown"
    /\ history' = Append(history, FinishedCall("thrown", 0, TRUE, FALSE))
    /\ UNCHANGED <<clfEntry, createLayerFamiliesCacheKey, createLayerFamiliesCacheValue, clfLayers,
                   clfWorker, clfResult, nextObject, families, workersCreated, recomputed>>
    /\ UNCHANGED <<drawVars, restVars>>

\* line 237
AssignCacheKey ==
    /\ clfPc = "assignKey"
    /\ createLayerFamiliesCacheKey' = clfLayers
    /\ clfPc' = "assignValue"
    /\ UNCHANGED <<clfEntry, createLayerFamiliesCacheValue, clfLayers, clfWorker, clfResult,
                   nextObject, families, workersCreated, recomputed, history>>
    /\ UNCHANGED <<drawVars, restVars>>

\* line 238
AssignCacheValue ==
    /\ clfPc = "assignValue"
    /\ createLayerFamiliesCacheValue' = clfWorker
    /\ recomputed' = recomputed + 1
    /\ clfPc' = "return"
    /\ UNCHANGED <<clfEntry, createLayerFamiliesCacheKey, clfLayers, clfWorker, clfResult,
                   nextObject, families, workersCreated, history>>
    /\ UNCHANGED <<drawVars, restVars>>

\* line 240
ReturnCacheValue ==
    /\ clfPc = "return"
    /\ clfResult' = createLayerFamiliesCacheValue
    /\ clfPc' = "returned"
    /\ history' = Append(history, FinishedCall("returned", createLayerFamiliesCacheValue,
                                            clfWorker # 0, clfWorker # 0))
    /\ UNCHANGED <<clfEntry, createLayerFamiliesCacheKey, createLayerFamiliesCacheValue, clfLayers,
                   clfWorker, nextObject, families, workersCreated, recomputed>>
    /\ UNCHANGED <<drawVars, restVars>>

(***************************************************************************)
(* dds_update_bucket.js: asyncTimesSeries(times, work, callback) with any   *)
(* work that calls its callback at most once: without error, with an       *)
(* error, or never (as the work given by run does when its sample fails,   *)
(* lines 70-71).                                                           *)
(***************************************************************************)
\* errors a work invocation can call back with; "none" stands for no error
WorkErrors == {"e1", "e2"}

SeriesEvent(ev, times, err) == [ev |-> ev, times |-> times, err |-> err]

\* lines 220-227 with line 220 testing times >= 0
SeriesEnter_inclusive(times, log) ==
    IF times >= 0
    THEN [pc |-> "working", times |-> times,
          log |-> Append(log, SeriesEvent("work", times, "none"))]
    ELSE [pc |-> "called", times |-> times,
          log |-> Append(log, SeriesEvent("callback", times, "none"))]

\* lines 220-227: one call of asyncTimesSeries: invoke work, or the callback
SeriesEnter(times, log) ==
    IF times > 0
    THEN [pc |-> "working", times |-> times,
          log |-> Append(log, SeriesEvent("work", times, "none"))]
    ELSE [pc |-> "called", times |-> times,
          log |-> Append(log, SeriesEvent("callback", times, "none"))]

InitSeries ==
    /\ seriesPc = "idle"
    /\ seriesTimes = 0
    /\ seriesLog = <<>>

\* line 219: the call asyncTimesSeries(times, work, callback)
asyncTimesSeries(times) ==
    /\ seriesPc = "idle"
    /\ LET r == SeriesEnter(times, <<SeriesEvent("call", times, "none")>>)
       IN  /\ seriesPc' = r.pc
           /\ seriesTimes' = r.times
           /\ seriesLog' = r.log
    /\ UNCHANGED <<drawVars, benchVars, numVars, runVars>>

\* lines 221-224: work calls the function it was given
WorkCallback(err) ==
    /\ seriesPc = "working"
    /\ LET logged == Append(seriesLog, SeriesEvent("workCallback", seriesTimes, err))
       IN  IF err # "none"
           THEN /\ seriesPc' = "called"
                /\ seriesLog' = Append(logged, SeriesEvent("callback", seriesTimes, err))
                /\ UNCHANGED seriesTimes
           ELSE LET r == SeriesEnter(seriesTimes - 1, logged)
                IN  /\ seriesPc' = r.pc
                    /\ seriesTimes' = r.times
                    /\ seriesLog' = r.log
    /\ UNCHANGED <<drawVars, benchVars, numVars, runVars>>

\* work ends without ever calling the function it was given
WorkAbandons ==
    /\ seriesPc = "working"
    /\ seriesPc' = "abandoned"
    /\ seriesLog' = Append(seriesLog, SeriesEvent("abandon", seriesTimes, "none"))
    /\ UNCHANGED seriesTimes
    /\ UNCHANGED <<drawVars, benchVars, numVars, runVars>>

(***************************************************************************)
(* dds_update_bucket.js: run, preloadAssets and runSample.                 *)
(* JavaScript runs each callback to completion, so an action is one        *)
(* callback with every call it makes. The state the callbacks share is     *)
(* held in a record while an action computes; SetRunState stores it.       *)
(***************************************************************************)
Tiles == 1..NumTiles

\* errors an asynchronous operation can call back with; "none": no error
OpErrors == {"e1", "e2"}

\* performance.now() differences, in ms
SampleTimes == {1, 2}

\* stylesheet.layers: the same array in every runSample of a run
StylesheetLayers == "A"

RunState ==
    [runPc |-> runPc, seriesLeft |-> seriesLeft, inflight |-> inflight,
     samples |-> samples, workerTileObjs |-> workerTileObjs,
     assetsWorkerTiles |-> assetsWorkerTiles, nextPropertyData |-> nextPropertyData,
     timeSum |-> timeSum, timeCount |-> timeCount, fired |-> fired,
     uncaught |-> uncaught]

\* an operation in flight or started: the sample and tile it belongs to, its
\* kind ("fetch", "parse", "update"), the WorkerTile object it runs on and the
\* property data it was given (0: none)
Op(sample, tile, kind, wt, arg) ==
    [sample |-> sample, tile |-> tile, kind |-> kind, wt |-> wt, arg |-> arg]

\* evented.fire(type, ...) for the terminal events; score is timeSum / timeCount
\* as the pair <<timeSum, timeCount>>
Fire(st, type) ==
    [st EXCEPT !.fired = Append(@, [type |-> type,
                                    score |-> <<st.timeSum, st.timeCount>>,
                                    timeCount |-> st.timeCount,
                                    samples |-> Len(st.samples)])]

\* line 179 with the test left out: every tile is fetched and parsed
NeedsPreload_always(obj) == TRUE

\* line 179: !workerTile.data
NeedsPreload(obj) == ~obj.data

\* line 208 passing no property data
UpdateArg_none(obj) == 0

\* line 208: the first argument of workerTile.updateProperties
UpdateArg(obj) == obj.propertyData

\* WorkerTile.parse keeps the decoded tile in workerTile.data
ParseSetsData(obj) == [obj EXCEPT !.data = TRUE]

\* lines 128-141 and 62-64: the WorkerTile that getWorkerTile gives for tile t,
\* as an index into objs: a new object in preloadAssets, assets.workerTiles[url]
\* in run
getWorkerTile(st, preload, t) ==
    IF preload THEN Len(st.workerTileObjs) + t ELSE st.assetsWorkerTiles[t]

\* lines 157-212: runSample up to the return of util.asyncAll: createLayerFamilies
\* (its cache is stored by SetRunState), then for each coordinate the worker
\* tile and the operation started on it
runSampleStart(st, preload) ==
    LET s == Len(st.samples) + 1
        objs == IF preload
                THEN st.workerTileObjs \o [t \in Tiles |-> [data |-> FALSE, propertyData |-> 0]]
                ELSE st.workerTileObjs
        wt(t) == getWorkerTile(st, preload, t)
        \* lines 180-205 with getTile of run, which calls back at once (line 59)
        decoded(t) == ParseSetsData([objs[wt(t)] EXCEPT
                                        !.propertyData = st.nextPropertyData + t - 1])
        ops(t) == IF NeedsPreload(objs[wt(t)])
                  THEN IF preload
                       THEN {Op(s, t, "fetch", wt(t), 0)}
                       ELSE {Op(s, t, "fetch", wt(t), 0),
                             Op(s, t, "parse", wt(t), decoded(t).propertyData)}
                  ELSE {Op(s, t, "update", wt(t), UpdateArg(objs[wt(t)]))}
        startedOps == UNION {ops(t) : t \in Tiles}
        pending == IF preload THEN startedOps
                   ELSE {o \in startedOps : o.kind # "fetch"}
    IN  [st EXCEPT
            !.samples = Append(@, [preload |-> preload, remaining |-> NumTiles,
                                   succeeded |-> {}, started |-> startedOps,
                                   callbacks |-> <<>>]),
            !.inflight = @ \cup pending,
            !.workerTileObjs =
                [w \in 1..Len(objs) |->
                    IF \E t \in Tiles : w = wt(t) /\ ~preload /\ NeedsPreload(objs[w])
                    THEN decoded(CHOOSE t \in Tiles : w = wt(t))
                    ELSE objs[w]],
            !.assetsWorkerTiles = IF preload THEN [t \in Tiles |-> wt(t)] ELSE @,
            !.nextPropertyData = IF preload THEN @ ELSE @ + NumTiles]

\* lines 72-73
SampleTimed_noCount(st, time) == [st EXCEPT !.timeSum = @ + time]

\* lines 72-73: timeSum += time; timeCount++
SampleTimed(st, time) == [st EXCEPT !.timeSum = @ + time, !.timeCount = @ + 1]

\* lines 219-228 as run uses it: work (lines 69-76) starts a timed sample, the
\* final callback (lines 77-88) fires 'end'; work never passes an error on
asyncTimesSeriesRun(st, times) ==
    LET entered == [st EXCEPT !.seriesLeft = times]
    IN  IF SeriesEnter(times, <<>>).pc = "working"
        THEN runSampleStart(entered, FALSE)
        ELSE Fire(entered, "end")

\* lines 60-90: the callback run gives to preloadAssets
PreloadCallback(st, err) ==
    IF err # "none"
    THEN Fire(st, "error")
    ELSE asyncTimesSeriesRun([st EXCEPT !.timeSum = 0, !.timeCount = 0], SAMPLE_COUNT)

\* the callback given to runSample for sample s: lines 145-148 (preloadAssets)
\* or lines 70-75 (run)
runSampleCallback(st, s, err, time) ==
    LET called == [st EXCEPT !.samples[s].callbacks =
                       Append(@, [err |-> err, succeeded |-> st.samples[s].succeeded])]
    IN  IF st.samples[s].preload
        THEN PreloadCallback(called, err)
        ELSE IF err # "none"
             THEN Fire(called, "error")
             ELSE asyncTimesSeriesRun(SampleTimed(called, time), called.seriesLeft - 1)

\* util.asyncAll: the callback it gives for each item counts the item and, once
\* every item is counted, calls the final function (lines 213-216)
eachCallback(st, op, time) ==
    LET counted == [st EXCEPT !.samples[op.sample].remaining = @ - 1,
                              !.samples[op.sample].succeeded = @ \cup {op.tile}]
    IN  IF counted.samples[op.sample].remaining = 0
        THEN runSampleCallback(counted, op.sample, "none", time)
        ELSE counted

\* lines 204 and 210 calling callback() in place of eachCallback()
OnSuccess_callback(st, op, time) ==
    runSampleCallback([st EXCEPT !.samples[op.sample].succeeded = @ \cup {op.tile}],
                      op.sample, "none", time)

\* lines 204 and 210: eachCallback()
OnSuccess(st, op, time) == eachCallback(st, op, time)

\* lines 202-205 and 208-211: the callback given to parse and to updateProperties
OpCallback(st, op, err, time) ==
    LET landed == [st EXCEPT !.inflight = @ \ {op}]
    IN  IF err # "none"
        THEN runSampleCallback(landed, op.sample, err, 0)
        ELSE OnSuccess(landed, op, time)

\* lines 181-205: the callback preloadAssets' getTile is given by
\* ajax.getArrayBuffer (lines 122-125)
TileFetched(st, op, err) ==
    LET landed == [st EXCEPT !.inflight = @ \ {op}]
        decoded == ParseSetsData([st.workerTileObjs[op.wt] EXCEPT
                                      !.propertyData = st.nextPropertyData])
        parse == Op(op.sample, op.tile, "parse", op.wt, decoded.propertyData)
    IN  IF err # "none"
        THEN [landed EXCEPT !.uncaught = @ + 1]
        ELSE [landed EXCEPT !.workerTileObjs[op.wt] = decoded,
                            !.nextPropertyData = @ + 1,
                            !.inflight = @ \cup {parse},
                            !.samples[op.sample].started = @ \cup {parse}]

InitRun ==
    /\ runPc = "idle"
    /\ seriesLeft = 0
    /\ inflight = {}
    /\ samples = <<>>
    /\ workerTileObjs = <<>>
    /\ assetsWorkerTiles = [t \in Tiles |-> 0]
    /\ nextPropertyData = 1
    /\ timeSum = 0
    /\ timeCount = 0
    /\ fired = <<>>
    /\ uncaught = 0

\* stores the state an action has computed; a runSample started by the action
\* has called createLayerFamilies(stylesheet.layers) (line 160, lines 232-241)
SetRunState(st) ==
    /\ runPc' = st.runPc
    /\ seriesLeft' = st.seriesLeft
    /\ inflight' = st.inflight
    /\ samples' = st.samples
    /\ workerTileObjs' = st.workerTileObjs
    /\ assetsWorkerTiles' = st.assetsWorkerTiles
    /\ nextPropertyData' = st.nextPropertyData
    /\ timeSum' = st.timeSum
    /\ timeCount' = st.timeCount
    /\ fired' = st.fired
    /\ uncaught' = st.uncaught
    /\ IF Len(st.samples) > Len(samples) /\ CacheMiss(StylesheetLayers)
       THEN /\ createLayerFamiliesCacheKey' = StylesheetLayers
            /\ createLayerFamiliesCacheValue' = nextObject
            /\ families' = Append(families, [from |-> StylesheetLayers,
                                             content |-> Content(StylesheetLayers)])
            /\ nextObject' = nextObject + 1
            /\ workersCreated' = workersCreated + 1
            /\ recomputed' = recomputed + 1
       ELSE UNCHANGED <<createLayerFamiliesCacheKey, createLayerFamiliesCacheValue,
                        families, nextObject, workersCreated, recomputed>>
    /\ UNCHANGED <<clfPc, clfLayers, clfWorker, clfResult, clfEntry, history>>
    /\ UNCHANGED <<drawVars, numVars, seriesVars>>

\* lines 19-26: run(options) up to the return of ajax.getJSON
run ==
    /\ runPc = "idle"
    /\ SetRunState([RunState EXCEPT !.runPc = "stylesheet"])

\* lines 26-61, 96-105: the callback given to ajax.getJSON; without error it
\* calls preloadAssets, which constructs the Style
GetJSONCallback(err) ==
    /\ runPc = "stylesheet"
    /\ SetRunState(IF err # "none"
                   THEN Fire([RunState EXCEPT !.runPc = "failed"], "error")
                   ELSE [RunState EXCEPT !.runPc = "style"])

\* lines 106-149: style fires 'load': the preload sample starts
StyleLoad ==
    /\ runPc = "style"
    /\ SetRunState(runSampleStart([RunState EXCEPT !.runPc = "sampling"], TRUE))

\* lines 151-153: style fires 'error'
StyleError ==
    /\ runPc = "style"
    /\ SetRunState(PreloadCallback([RunState EXCEPT !.runPc = "failed"], "e1"))

\* lines 122-125, 181-205: ajax.getArrayBuffer calls back for a tile
GetTileCallback(op, err) ==
    /\ op \in inflight
    /\ op.kind = "fetch"
    /\ SetRunState(TileFetched(RunState, op, err))

\* lines 202-205: workerTile.parse calls back
ParseCallback(op, err, time) ==
    /\ op \in inflight
    /\ op.kind = "parse"
    /\ SetRunState(OpCallback(RunState, op, err, time))

\* lines 208-211: workerTile.updateProperties calls back
UpdatePropertiesCallback(op, err, time) ==
    /\ op \in inflight
    /\ op.kind = "update"
    /\ SetRunState(OpCallback(RunState, op, err, time))

(***************************************************************************)
(* Floating-point numbers. JavaScript numbers are binary floating-point:   *)
(* every operation gives the exact result rounded to the nearest number    *)
(* with a mantissa of fixed length, ties to even. The model keeps that,    *)
(* with a mantissa of Precision bits. A number is a pair <<n, d>> that     *)
(* stands for n / d, d > 0.                                                *)
(***************************************************************************)
RECURSIVE Pow2(_)
Pow2(e) == IF e <= 0 THEN 1 ELSE 2 * Pow2(e - 1)

\* n / (d * 2^e) as a pair, for any integer e
Scaled(n, d, e) == IF e >= 0 THEN <<n, d * Pow2(e)>> ELSE <<n * Pow2(-e), d>>

\* the number m * 2^e, m a mantissa of at most Precision bits
Float(m, e) == IF e >= 0 THEN <<m * Pow2(e), 1>> ELSE <<m, Pow2(-e)>>

\* m * 2^e with the mantissa brought back into range after rounding up
Normal(m, e) ==
    IF m = Pow2(Precision) THEN Float(Pow2(Precision - 1), e + 1) ELSE Float(m, e)

\* round to nearest, ties to even: the integer nearest to n / d
NearestEven(n, d) ==
    LET q == n \div d
        r == n - q * d
    IN  IF 2 * r > d \/ (2 * r = d /\ q % 2 = 1) THEN q + 1 ELSE q

\* the floating-point number nearest to n / d, for n >= 0
Round(n, d) ==
    IF n = 0 THEN <<0, 1>>
    ELSE LET e == CHOOSE x \in (-MaxExp)..MaxExp :
                      LET sc == Scaled(n, d, x)
                      IN  /\ Pow2(Precision - 1) * sc[2] <= sc[1]
                          /\ sc[1] < Pow2(Precision) * sc[2]
             sc == Scaled(n, d, e)
         IN  Normal(NearestEven(sc[1], sc[2]), e)

\* comparisons of numbers
Less(a, b) == a[1] * b[2] < b[1] * a[2]
Same(a, b) == a[1] * b[2] = b[1] * a[2]

\* a + b, a * b, a / b and a - b (for a >= b) as JavaScript computes them
FAdd(a, b) == Round(a[1] * b[2] + b[1] * a[2], a[2] * b[2])
FMul(a, b) == Round(a[1] * b[1], a[2] * b[2])
FDiv(a, b) == Round(a[1] * b[2], a[2] * b[1])
FSub(a, b) == Round(a[1] * b[2] - b[1] * a[2], a[2] * b[2])

\* Math.sqrt(a): the floating-point number nearest to the square root of a
FSqrt(a) ==
    IF a[1] = 0 THEN <<0, 1>>
    ELSE LET e == CHOOSE x \in (-MaxExp)..MaxExp :
                      LET sc == Scaled(a[1], a[2], 2 * x)
                      IN  /\ Pow2(2 * (Precision - 1)) * sc[2] <= sc[1]
                          /\ sc[1] < Pow2(2 * Precision) * sc[2]
             sc == Scaled(a[1], a[2], 2 * e)
             m == CHOOSE x \in Pow2(Precision - 1)..(Pow2(Precision) - 1) :
                      /\ x * x * sc[2] <= sc[1]
                      /\ sc[1] < (x + 1) * (x + 1) * sc[2]
             mid == (2 * m + 1) * (2 * m + 1) * sc[2]
         IN  IF 4 * sc[1] > mid \/ (4 * sc[1] = mid /\ m % 2 = 1)
             THEN Normal(m + 1, e)
             ELSE Normal(m, e)

\* the number n / d as a literal of the program
Num(n, d) == Round(n, d)

(***************************************************************************)
(* draw_line.js: the values of the uniforms                                *)
(***************************************************************************)
\* pixelsToTileUnits(tile, pixelValue, z): pixelValue times the number of tile
\* units per pixel of the tile at that zoom
pixelsToTileUnits(unitsPerPixel, pixelValue) == FMul(pixelValue, unitsPerPixel)

\* imagePos.size of an atlas entry: [width, height] in pixels
ImageSizes == {<<Num(w, 1), Num(h, 1)>> : w \in {1, 2}, h \in {1, 2}}

\* image.fromScale, image.toScale
PatternScales == {Num(1, 1), Num(2, 1)}

\* tile units per pixel of the tiles drawn
TileUnits == {Num(16, 1)}

\* lines 126-133: u_pattern_size_a and u_pattern_size_b
PatternSizeUniforms(sizeA, sizeB, fromScale, toScale, units) ==
    [sizeA |-> sizeA, sizeB |-> sizeB, fromScale |-> fromScale, toScale |-> toScale,
     units |-> units,
     u_pattern_size_a |-> <<pixelsToTileUnits(units, FMul(sizeA[1], fromScale)), sizeB[2]>>,
     u_pattern_size_b |-> <<pixelsToTileUnits(units, FMul(sizeB[1], toScale)), sizeB[2]>>]

\* paint['line-blur'], browser.devicePixelRatio, paint['line-width'],
\* paint['line-gap-width']
LineBlurs == {Num(0, 1), Num(1, 2), Num(1, 1)}
DevicePixelRatios == {Num(1, 1), Num(2, 1), Num(3, 1)}
PaintWidths == {Num(1, 1), Num(3, 1)}
GapWidths == {Num(0, 1), Num(2, 1)}

\* the shared uniforms with half a device pixel added to the blur
SharedUniforms_halfPixel(blur, dpr, width, gap) ==
    [blur |-> blur, dpr |-> dpr, width |-> width, gap |-> gap,
     u_blur |-> FAdd(blur, FDiv(FDiv(Num(1, 1), dpr), Num(2, 1))),
     u_linewidth |-> FDiv(width, Num(2, 1)),
     u_gapwidth |-> FDiv(gap, Num(2, 1)),
     u_antialiasing |-> FDiv(FDiv(Num(1, 1), dpr), Num(2, 1))]

\* lines 53-59: the shared uniforms computed from the paint properties and
\* the device pixel ratio
SharedUniforms(blur, dpr, width, gap) ==
    [blur |-> blur, dpr |-> dpr, width |-> width, gap |-> gap,
     u_blur |-> FAdd(blur, FDiv(Num(1, 1), dpr)),
     u_linewidth |-> FDiv(width, Num(2, 1)),
     u_gapwidth |-> FDiv(gap, Num(2, 1)),
     u_antialiasing |-> FDiv(FDiv(Num(1, 1), dpr), Num(2, 1))]

\* transform.height, transform.altitude, and Math.tan(transform._pitch) for
\* pitches from 0 up to, not including, a right angle; the tangent is 0 for
\* pitch 0 only
Heights == {Num(1, 1), Num(2, 1), Num(3, 1), Num(4, 1)}
Altitudes == {Num(1, 1), Num(3, 2), Num(2, 1)}
TanPitches == {Num(0, 1), Num(1, 64), Num(1, 8), Num(1, 2), Num(1, 1), Num(2, 1)}

\* getExtra returning the ratio itself
getExtraValues_ratio(height, altitude, tanPitch) ==
    LET topedgelength ==
            FSqrt(FMul(FDiv(FMul(height, height), Num(4, 1)),
                       FAdd(Num(1, 1), FMul(altitude, altitude))))
        x == FMul(FDiv(height, Num(2, 1)), tanPitch)
        sum == FAdd(topedgelength, x)
    IN  [height |-> height, altitude |-> altitude, tanPitch |-> tanPitch,
         topedgelength |-> topedgelength, x |-> x, sum |-> sum,
         extra |-> FDiv(sum, topedgelength)]

\* lines 151-157
getExtraValues(height, altitude, tanPitch) ==
    LET topedgelength ==
            FSqrt(FMul(FDiv(FMul(height, height), Num(4, 1)),
                       FAdd(Num(1, 1), FMul(altitude, altitude))))
        x == FMul(FDiv(height, Num(2, 1)), tanPitch)
        sum == FAdd(topedgelength, x)
    IN  [height |-> height, altitude |-> altitude, tanPitch |-> tanPitch,
         topedgelength |-> topedgelength, x |-> x, sum |-> sum,
         extra |-> FSub(FDiv(sum, topedgelength), Num(1, 1))]

InitNum ==
    /\ numPc = "none"
    /\ patternU = PatternSizeUniforms(<<Num(1, 1), Num(1, 1)>>, <<Num(1, 1), Num(1, 1)>>,
                                      Num(1, 1), Num(1, 1), Num(16, 1))
    /\ sharedU = SharedUniforms(Num(0, 1), Num(1, 1), Num(1, 1), Num(0, 1))
    /\ extraU = getExtraValues(Num(1, 1), Num(1, 1), Num(0, 1))

\* lines 120-134: painter.setUniforms of bindLinePatternProgram
setPatternUniforms(sizeA, sizeB, fromScale, toScale, units) ==
    /\ numPc = "none"
    /\ numPc' = "pattern"
    /\ patternU' = PatternSizeUniforms(sizeA, sizeB, fromScale, toScale, units)
    /\ UNCHANGED <<sharedU, extraU>>
    /\ UNCHANGED <<drawVars, benchVars, seriesVars, runVars>>

\* lines 51-60: painter.setUniforms of drawLine
setSharedUniforms(blur, dpr, width, gap) ==
    /\ numPc = "none"
    /\ numPc' = "shared"
    /\ sharedU' = SharedUniforms(blur, dpr, width, gap)
    /\ UNCHANGED <<patternU, extraU>>
    /\ UNCHANGED <<drawVars, benchVars, seriesVars, runVars>>

\* line 54: getExtra(painter.transform)
getExtra(height, altitude, tanPitch) ==
    /\ numPc = "none"
    /\ numPc' = "extra"
    /\ extraU' = getExtraValues(height, altitude, tanPitch)
    /\ UNCHANGED <<patternU, sharedU>>
    /\ UNCHANGED <<drawVars, benchVars, seriesVars, runVars>>

(***************************************************************************)
(* Specifications                                                          *)
(***************************************************************************)
\* the painter untouched: gl's defaults
PainterDefault == depthMaskOn /\ depthSublayer = 0 /\ ~stencilTest

Init == InitDraw /\ InitBench /\ InitNum /\ InitSeries /\ InitRun

\* one invocation of drawLine
NextDraw ==
    \/ /\ Callable
       /\ \E opaque \in BOOLEAN, l \in Layers, cs \in CoordLists,
             atlas \in SUBSET PatternImages : drawLine(opaque, l, cs, atlas)
    \/ LoopExit
    \/ SkipNoBucket
    \/ SkipNoLineGroups
    \/ bindLineSDFPatternProgram
    \/ bindLinePatternProgram
    \/ bindLineProgram
    \/ SetSharedUniforms
    \/ ThrowOnUndefinedProgram
    \/ enableTileClippingMask
    \/ DrawGroup
    \/ NextCoord
SpecDraw == Init /\ [][NextDraw]_vars

\* createLayerFamilies, called up to MaxCalls times
NextCache ==
    \/ \E layers \in LayerRefs : createLayerFamilies(layers)
    \/ NewWorker
    \/ NewWorkerThrows
    \/ SetLayers
    \/ SetLayersThrows
    \/ AssignCacheKey
    \/ AssignCacheValue
    \/ ReturnCacheValue
InitCache == Init /\ PainterDefault
SpecCache == InitCache /\ [][NextCache]_vars

\* the values of the uniforms, one computation per behaviour
NextUniforms ==
    \/ /\ numPc = "none"
       /\ \E sizeA \in ImageSizes, sizeB \in ImageSizes, fromScale \in PatternScales,
             toScale \in PatternScales, units \in TileUnits :
             setPatternUniforms(sizeA, sizeB, fromScale, toScale, units)
    \/ /\ numPc = "none"
       /\ \E blur \in LineBlurs, dpr \in DevicePixelRatios, width \in PaintWidths,
             gap \in GapWidths : setSharedUniforms(blur, dpr, width, gap)
    \/ /\ numPc = "none"
       /\ \E height \in Heights, altitude \in Altitudes, tanPitch \in TanPitches :
             getExtra(height, altitude, tanPitch)
InitUniforms == Init /\ PainterDefault
SpecUniforms == InitUniforms /\ [][NextUniforms]_vars

\* asyncTimesSeries on its own, one call per behaviour
NextSeries ==
    \/ \E times \in (-1)..MaxTimes : asyncTimesSeries(times)
    \/ \E err \in WorkErrors \cup {"none"} : WorkCallback(err)
    \/ WorkAbandons
InitSeriesOnly == Init /\ PainterDefault
SpecSeries == InitSeriesOnly /\ [][NextSeries]_vars

\* one run of the benchmark
NextRun ==
    \/ run
    \/ \E err \in OpErrors \cup {"none"} : GetJSONCallback(err)
    \/ StyleLoad
    \/ StyleError
    \/ \E op \in inflight, err \in OpErrors \cup {"none"} : GetTileCallback(op, err)
    \/ \E op \in inflight, err \in OpErrors \cup {"none"}, time \in SampleTimes :
           ParseCallback(op, err, time)
    \/ \E op \in inflight, err \in OpErrors \cup {"none"}, time \in SampleTimes :
           UpdatePropertiesCallback(op, err, time)
InitRunOnly == Init /\ PainterDefault
SpecRun == InitRunOnly /\ [][NextRun]_vars

Next == NextDraw \/ NextCache \/ NextUniforms \/ NextSeries \/ NextRun
Spec == Init /\ [][Next]_vars

(***************************************************************************)
(* Properties of drawLine                                                  *)
(***************************************************************************)
CallEnded == pc \in {"returned", "thrown"}

\* the calls made for coordinate c, in order
CallsFor(c) == SelectSeq(calls, LAMBDA e : e.coord = c)

\* the calls of operation op made for coordinate c, in order
OpsFor(op, c) == SelectSeq(calls, LAMBDA e : e.coord = c /\ e.op = op)

HasOp(op) == \E p \in 1..Len(calls) : calls[p].op = op

\* coordinate number j of coords has reached program selection
Selected(j) ==
    /\ coords[j].bucket
    /\ coords[j].line
    /\ \/ j < k
       \/ j = k /\ pc \in {"uniforms", "clip", "groups", "thrown"}

\* the line-pattern of the layer is in use and one of its images has no atlas entry
MissingAtlasEntry ==
    /\ ~layer.dasharray
    /\ layer.pattern
    /\ \/ getPosition(spriteAtlas, "from") = "null"
       \/ getPosition(spriteAtlas, "to") = "null"

\* C1: every coordinate that reaches program selection has exactly one program
\* bound for it: 'linesdfpattern' whenever line-dasharray is set, whatever
\* line-pattern is; 'linepattern' only when line-dasharray is unset and
\* line-pattern is set; 'line' only when both are unset.
C1_ProgramSelection ==
    \A j \in 1..Len(coords) :
        LET bound == OpsFor("useProgram", coords[j].id)
        IN  /\ Len(bound) = (IF Selected(j) THEN 1 ELSE 0)
            /\ \A p \in 1..Len(bound) :
                  /\ bound[p].arg \in Programs
                  /\ layer.dasharray => bound[p].arg = "linesdfpattern"
                  /\ bound[p].arg = "linepattern" => ~layer.dasharray /\ layer.pattern
                  /\ bound[p].arg = "line" => ~layer.dasharray /\ ~layer.pattern

\* C1 witness: a finished call for a layer with both line-dasharray and
\* line-pattern set, in which the dashed program has been bound
C1_Witness ==
    /\ pc = "returned"
    /\ layer.dasharray
    /\ layer.pattern
    /\ currentProgram = "linesdfpattern"
    /\ HasOp("drawElements")

\* C2: a missing atlas entry is not fatal: a drawLine call that enters the loop
\* with an image of the line-pattern absent from the atlas does not throw; it
\* ends by returning, after the loop has visited every coordinate.
C2_MissingAtlasNotFatal ==
    (MissingAtlasEntry /\ ~isOpaquePass /\ layer.width > 0) =>
        /\ pc # "thrown"
        /\ CallEnded => pc = "returned" /\ k > Len(coords)

\* C3: with an atlas entry missing, bindLinePatternProgram returns no program,
\* sets no pattern uniform, does not bind the sprite atlas texture, and no
\* drawElements call is issued in that drawLine call.
C3_MissingAtlasBindsNothing ==
    MissingAtlasEntry =>
        /\ pc \in {"uniforms", "clip", "groups", "thrown"} => program = "undefined"
        /\ \A p \in 1..Len(calls) :
              /\ ~(calls[p].op = "setUniforms" /\ calls[p].arg = "pattern")
              /\ calls[p].op # "spriteAtlas.bind"
              /\ calls[p].op # "uniform1i"
              /\ calls[p].op # "drawElements"

\* C3 witness: bindLinePatternProgram has run with only the 'to' image missing
C3_Witness ==
    /\ MissingAtlasEntry
    /\ spriteAtlas = {"from"}
    /\ currentProgram = "linepattern"
    /\ HasOp("useProgram")

\* operations that bind a program, set a uniform, enable the clipping mask or draw
DrawingOps ==
    {"useProgram", "setUniforms", "uniform1i", "uniformMatrix2fv", "uniformMatrix4fv",
     "enableTileClippingMask", "drawElements"}

\* C4: a drawLine call in the opaque pass, or with line-width <= 0, binds no
\* program, sets no uniform, enables no clipping mask and draws nothing; in the
\* opaque pass it makes no call at all and leaves the painter / gl state as it
\* was on entry.
C4_SkippedCall ==
    (pc # "idle" /\ (isOpaquePass \/ layer.width <= 0)) =>
        /\ pc = "returned"
        /\ \A p \in 1..Len(calls) : calls[p].op \notin DrawingOps
        /\ currentProgram = entry[4]
        /\ clipMask = entry[5]
        /\ isOpaquePass => calls = <<>> /\ PainterState = entry

\* C4 witness: a returned opaque-pass call over a coordinate with line buffer
\* groups, entered with depth writes on and the stencil test off
C4_Witness ==
    /\ pc = "returned"
    /\ isOpaquePass
    /\ layer.width > 0
    /\ Len(coords) > 0
    /\ coords[1].line
    /\ coords[1].len > 0
    /\ depthMaskOn
    /\ ~stencilTest

\* the coordinates of coords that are not skipped at lines 35 and 37
KeptCoords == SelectSeq(coords, LAMBDA c : c.bucket /\ c.line)

\* C5: a coordinate whose tile has no bucket, or whose bucket has no line buffer
\* groups, gets no call at all, and the calls of the whole drawLine call are
\* those of a call on coords with the skipped coordinates left out.
C5_SkippedCoordinates ==
    /\ \A j \in 1..Len(coords) :
          (~coords[j].bucket \/ ~coords[j].line) => CallsFor(coords[j].id) = <<>>
    /\ CallEnded => calls = drawLineCalls(isOpaquePass, layer, KeptCoords, spriteAtlas)

\* C5 witness: a returned call whose first coordinate has no bucket and whose
\* second coordinate has been drawn
C5_Witness ==
    /\ pc = "returned"
    /\ Len(coords) = 2
    /\ ~coords[1].bucket
    /\ Len(OpsFor("drawElements", coords[2].id)) > 0

\* coordinate number j has a bucket with line buffer groups, and the binder
\* of the layer returns a program
Drawable(j) == coords[j].bucket /\ coords[j].line /\ ~MissingAtlasEntry

\* the sum of bufferGroups.length over the drawable coordinates from j on
RECURSIVE SumGroups(_)
SumGroups(j) ==
    IF j > Len(coords) THEN 0
    ELSE (IF Drawable(j) THEN coords[j].len ELSE 0) + SumGroups(j + 1)

\* C6: when a drawLine call that is not skipped has ended, each coordinate with
\* line buffer groups and a program has one drawElements per buffer group, in
\* buffer-group order; each drawElements directly follows the bind of that
\* group's layout, element and paint buffers; and the number of drawElements
\* is the sum of bufferGroups.length over those coordinates.
C6_OneDrawPerGroup ==
    (CallEnded /\ ~isOpaquePass /\ layer.width > 0) =>
        /\ \A j \in 1..Len(coords) :
              LET draws == OpsFor("drawElements", coords[j].id)
              IN  IF Drawable(j)
                  THEN /\ Len(draws) = coords[j].len
                       /\ \A g \in 1..Len(draws) : draws[g].group = g
                  ELSE draws = <<>>
        /\ \A p \in 1..Len(calls) :
              calls[p].op = "drawElements" =>
                  /\ p > 1
                  /\ calls[p - 1].op = "vao.bind"
                  /\ calls[p - 1].arg = "layout,element,paint[layer.id]"
                  /\ calls[p - 1].coord = calls[p].coord
                  /\ calls[p - 1].group = calls[p].group
        /\ Len(SelectSeq(calls, LAMBDA e : e.op = "drawElements")) = SumGroups(1)

\* C6 witness: a returned call that drew two coordinates, three groups in all
C6_Witness ==
    /\ pc = "returned"
    /\ Len(coords) = 2
    /\ coords[1].len = 2
    /\ coords[2].len = 1
    /\ Len(SelectSeq(calls, LAMBDA e : e.op = "drawElements")) = 3

\* the stage of a coordinate's processing a call belongs to
Rank(e) ==
    CASE e.op = "useProgram" -> 1
      [] e.op = "setUniforms" /\ e.arg \in {"sdf", "pattern"} -> 2
      [] e.op \in {"uniform1i", "activeTexture", "lineAtlas.bind", "spriteAtlas.bind"} -> 2
      [] e.op = "setUniforms" /\ e.arg \in {"shared", "bucket"} -> 3
      [] e.op \in {"translatePosMatrix", "uniformMatrix2fv", "uniformMatrix4fv"} -> 3
      [] e.op = "enableTileClippingMask" -> 4
      [] e.op \in {"vao.bind", "drawElements"} -> 5
      [] OTHER -> 0

\* the coordinate of the last enableTileClippingMask among the first p calls
LastMaskBefore(p) ==
    LET ps == {q \in 1..p : calls[q].op = "enableTileClippingMask"}
    IN  IF ps = {} THEN 0
        ELSE calls[CHOOSE q \in ps : \A r \in ps : r <= q].coord

\* C7: for every coordinate the calls come in the order: program bound, variant
\* uniforms, shared uniforms and matrices, clipping mask, draw calls; the first
\* call for a coordinate binds its program; and at every drawElements the most
\* recently enabled clipping mask is that of the coordinate being drawn.
C7_CallOrder ==
    /\ \A j \in 1..Len(coords) :
          LET cf == CallsFor(coords[j].id)
          IN  /\ Len(cf) > 0 => cf[1].op = "useProgram"
              /\ \A p \in 1..(Len(cf) - 1) : Rank(cf[p]) <= Rank(cf[p + 1])
    /\ \A p \in 1..Len(calls) :
          calls[p].op = "drawElements" => LastMaskBefore(p) = calls[p].coord
    /\ pc = "groups" => clipMask = coords[k].id

\* C7 witness: a returned call of a dashed layer that drew two coordinates
C7_Witness ==
    /\ pc = "returned"
    /\ layer.dasharray
    /\ Len(coords) = 2
    /\ Len(OpsFor("drawElements", coords[1].id)) > 0
    /\ Len(OpsFor("drawElements", coords[2].id)) > 0
    /\ clipMask = coords[2].id

\* C8: in a drawLine call outside the opaque pass, depthMask(false) is called
\* before any drawElements, depth writes are never turned on again, and depth
\* writes are off from then on, so at every draw call.
C8_DepthWritesOff ==
    (pc # "idle" /\ ~isOpaquePass) =>
        /\ \E p \in 1..Len(calls) :
              /\ calls[p].op = "depthMask"
              /\ calls[p].arg = "false"
              /\ \A q \in 1..Len(calls) : calls[q].op = "drawElements" => p < q
        /\ \A p \in 1..Len(calls) : calls[p].op = "depthMask" => calls[p].arg = "false"
        /\ ~depthMaskOn

\* C8 witness: a call entered with depth writes on has issued a draw call
C8_Witness ==
    /\ entry[1] = TRUE
    /\ HasOp("drawElements")

(***************************************************************************)
(* Properties of createLayerFamilies                                       *)
(***************************************************************************)
\* the last call before call number j that returned (0 if none)
LastReturnedBefore(j) ==
    LET qs == {q \in 1..(j - 1) : history[q].outcome = "returned"}
    IN  IF qs = {} THEN 0 ELSE CHOOSE q \in qs : \A r \in qs : r <= q

\* call number j returned the cached object without a Worker or a recomputation
CacheHitAt(j, q) ==
    /\ history[j].outcome = "returned"
    /\ ~history[j].worker
    /\ ~history[j].replaced
    /\ history[j].result = history[q].result

\* call number j constructed a Worker, recomputed, replaced the slot and returned
\* an object no earlier call returned, computed from its own argument
RecomputedAt(j) ==
    /\ history[j].worker
    /\ history[j].replaced
    /\ history[j].result \in 1..Len(families)
    /\ families[history[j].result].from = history[j].layers
    /\ \A r \in 1..(j - 1) : history[r].result # history[j].result

\* C9 as stated: among the calls that return, one with the same reference as
\* the immediately preceding call returns the cached object without creating a
\* Worker or recomputing, and one with any different reference recomputes and
\* replaces the slot.
C9_SlotKeyedByPrecedingCall ==
    \A j \in 2..Len(history) :
        history[j].outcome = "returned" =>
            IF history[j].layers = history[j - 1].layers
            THEN CacheHitAt(j, j - 1)
            ELSE RecomputedAt(j)

\* C9 amended: the slot is keyed by the reference of the last call that
\* returned. A call with that reference returns the identical cached object
\* without creating a Worker or recomputing; a call with any other reference,
\* structurally equal or not, or with no call returned before it, recomputes:
\* it replaces the slot with a new object if it returns and leaves the slot if
\* it throws. Between calls the key is the argument of the last call that
\* returned, and one Worker was created per recomputation attempted.
C9_SlotKeyedByLastReturnedCall ==
    /\ \A j \in 1..Len(history) :
          LET q == LastReturnedBefore(j)
          IN  IF q > 0 /\ history[q].layers = history[j].layers
              THEN CacheHitAt(j, q)
              ELSE /\ history[j].outcome = "returned" => RecomputedAt(j)
                   /\ history[j].outcome = "thrown" => ~history[j].replaced
    /\ ClfCallable =>
          LET q == LastReturnedBefore(Len(history) + 1)
          IN  /\ createLayerFamiliesCacheKey =
                    (IF q = 0 THEN "undefined" ELSE history[q].layers)
              /\ recomputed = Cardinality({j \in 1..Len(history) : history[j].replaced})
              /\ workersCreated = Cardinality({j \in 1..Len(history) : history[j].worker})

\* C9 witness: the calls A, B, A, with A and B structurally equal, all returned
\* and recomputed three times
C9_Witness ==
    /\ clfPc = "returned"
    /\ Len(history) = 3
    /\ history[1].layers = "A"
    /\ history[2].layers = "B"
    /\ history[3].layers = "A"
    /\ Content("A") = Content("B")
    /\ \A j \in 1..3 : history[j].outcome = "returned"
    /\ recomputed = 3
    /\ createLayerFamiliesCacheKey = "A"

\* the cached value is the layerFamilies object computed from the cached key
\* (or nothing has been cached yet)
PairMatches ==
    \/ createLayerFamiliesCacheKey = "undefined" /\ createLayerFamiliesCacheValue = 0
    \/ /\ createLayerFamiliesCacheValue \in 1..Len(families)
       /\ families[createLayerFamiliesCacheValue].from = createLayerFamiliesCacheKey

\* C10: whenever createLayerFamilies has returned or thrown, the cached key and
\* value are a matching pair, and after a call that threw they are the pair
\* that was cached when that call was entered.
C10_SlotNeverHalfWritten ==
    ClfCallable =>
        /\ PairMatches
        /\ clfPc = "thrown" =>
              <<createLayerFamiliesCacheKey, createLayerFamiliesCacheValue>> = clfEntry

\* C10 witness: 'set layers' threw in a call made with another reference than
\* the cached one
C10_Witness ==
    /\ clfPc = "thrown"
    /\ history[Len(history)].worker
    /\ createLayerFamiliesCacheKey # "undefined"
    /\ clfLayers # createLayerFamiliesCacheKey

(***************************************************************************)
(* Properties of the uniform values                                        *)
(***************************************************************************)
\* C13: in the patterned variant each pattern size is derived from its own
\* side's atlas entry in both components: u_pattern_size_a from the size of
\* image A only (size[0] scaled by fromScale, and size[1]), u_pattern_size_b
\* from the size of image B only.
C13_PatternSizePerSide ==
    numPc = "pattern" =>
        /\ patternU.u_pattern_size_a =
               <<pixelsToTileUnits(patternU.units,
                                   FMul(patternU.sizeA[1], patternU.fromScale)),
                 patternU.sizeA[2]>>
        /\ patternU.u_pattern_size_b =
               <<pixelsToTileUnits(patternU.units,
                                   FMul(patternU.sizeB[1], patternU.toScale)),
                 patternU.sizeB[2]>>

\* C14 as stated: u_blur is line-blur plus half a device pixel, the amount
\* added being the value of u_antialiasing of the same call.
C14_BlurPlusHalfPixel ==
    numPc = "shared" =>
        Same(sharedU.u_blur, FAdd(sharedU.blur, sharedU.u_antialiasing))

\* C14 amended: u_blur is line-blur plus one device pixel, 1 / devicePixelRatio,
\* and the amount added is twice the value of u_antialiasing of the same call.
C14_BlurPlusOnePixel ==
    numPc = "shared" =>
        /\ Same(sharedU.u_blur, FAdd(sharedU.blur, FDiv(Num(1, 1), sharedU.dpr)))
        /\ Same(FDiv(Num(1, 1), sharedU.dpr), FMul(Num(2, 1), sharedU.u_antialiasing))

\* C14 witness: the shared uniforms were set for a blurred line on a display
\* with two device pixels per pixel, and u_blur is more than line-blur plus
\* u_antialiasing
C14_Witness ==
    /\ numPc = "shared"
    /\ Less(Num(0, 1), sharedU.blur)
    /\ sharedU.dpr = Num(2, 1)
    /\ Less(FAdd(sharedU.blur, sharedU.u_antialiasing), sharedU.u_blur)

\* C15 as stated: getExtra is 0 at pitch 0 for every positive height and every
\* altitude, and strictly positive for every pitch between 0 and a right angle.
C15_ZeroAtZeroPitchPositiveAbove ==
    numPc = "extra" =>
        IF Same(extraU.tanPitch, Num(0, 1))
        THEN Same(extraU.extra, Num(0, 1))
        ELSE Less(Num(0, 1), extraU.extra)

\* C15 amended: getExtra is 0 at pitch 0, is never negative, and is strictly
\* positive exactly when the sum topedgelength + x, as rounded, is greater than
\* topedgelength; a pitch so small that x is lost in the sum gives 0.
C15_PositiveUnlessAbsorbed ==
    numPc = "extra" =>
        /\ Same(extraU.tanPitch, Num(0, 1)) => Same(extraU.extra, Num(0, 1))
        /\ ~Less(extraU.extra, Num(0, 1))
        /\ Less(Num(0, 1), extraU.extra) <=> Less(extraU.topedgelength, extraU.sum)

\* C15 witness: getExtra has run with a pitch above 0 whose x is positive and
\* is lost in the sum, and has returned 0
C15_Witness ==
    /\ numPc = "extra"
    /\ Less(Num(0, 1), extraU.tanPitch)
    /\ Less(Num(0, 1), extraU.x)
    /\ Same(extraU.sum, extraU.topedgelength)
    /\ Same(extraU.extra, Num(0, 1))

(***************************************************************************)
(* Properties of asyncTimesSeries                                          *)
(***************************************************************************)
SeriesCount(ev) == Len(SelectSeq(seriesLog, LAMBDA e : e.ev = ev))

\* work invocations that called back without error
SeriesSucceeded ==
    Len(SelectSeq(seriesLog, LAMBDA e : e.ev = "workCallback" /\ e.err = "none"))

\* the first work callback with an error, 0 if none
FirstFailure ==
    IF \E p \in 1..Len(seriesLog) :
           seriesLog[p].ev = "workCallback" /\ seriesLog[p].err # "none"
    THEN CHOOSE p \in 1..Len(seriesLog) :
             /\ seriesLog[p].ev = "workCallback" /\ seriesLog[p].err # "none"
             /\ \A q \in 1..(p - 1) :
                    ~(seriesLog[q].ev = "workCallback" /\ seriesLog[q].err # "none")
    ELSE 0

\* work runs strictly in sequence: an invocation of work is either the first
\* thing after the call, or comes directly after the preceding invocation has
\* called back without error; and nothing follows the final callback or an
\* invocation that never calls back
SeriesSequential ==
    \A p \in 2..Len(seriesLog) :
        /\ seriesLog[p].ev = "work" =>
               \/ p = 2
               \/ /\ seriesLog[p - 1].ev = "workCallback"
                  /\ seriesLog[p - 1].err = "none"
                  /\ seriesLog[p - 2].ev = "work"
        /\ seriesLog[p - 1].ev \notin {"callback", "abandon"}

\* work is invoked at most `times` times
SeriesAtMostTimes ==
    seriesLog # <<>> =>
        SeriesCount("work") <= (IF seriesLog[1].times > 0 THEN seriesLog[1].times ELSE 0)

\* what the final callback is given: no error after exactly `times` successful
\* invocations (none when times <= 0), else the error of the first failing one
SeriesResult ==
    seriesPc = "called" =>
        LET last == seriesLog[Len(seriesLog)]
        IN  /\ last.ev = "callback"
            /\ IF last.err = "none"
               THEN /\ FirstFailure = 0
                    /\ SeriesSucceeded =
                           (IF seriesLog[1].times > 0 THEN seriesLog[1].times ELSE 0)
                    /\ seriesLog[1].times <= 0 => Len(seriesLog) = 2
               ELSE /\ FirstFailure = Len(seriesLog) - 1
                    /\ last.err = seriesLog[FirstFailure].err

\* C17 as stated: work runs strictly in sequence and at most `times` times, and
\* the final callback is invoked exactly once: never twice, and once whenever
\* no invocation of work is outstanding; without error after exactly `times`
\* successful invocations, or with the error of the first failing invocation,
\* after which work is not invoked again.
C17_FinalCallbackExactlyOnce ==
    /\ SeriesSequential
    /\ SeriesAtMostTimes
    /\ SeriesResult
    /\ SeriesCount("callback") <= 1
    /\ seriesPc \in {"called", "abandoned"} => SeriesCount("callback") = 1

\* C17 amended: the same, with the final callback invoked at most once, and
\* exactly once provided every invocation of work calls back; when an
\* invocation of work never calls back, neither work nor the final callback
\* is invoked afterwards.
C17_FinalCallbackOnceIfWorkCallsBack ==
    /\ SeriesSequential
    /\ SeriesAtMostTimes
    /\ SeriesResult
    /\ SeriesCount("callback") <= 1
    /\ seriesPc = "called" => SeriesCount("callback") = 1
    /\ seriesPc = "abandoned" =>
           /\ SeriesCount("callback") = 0
           /\ seriesLog[Len(seriesLog)].ev = "abandon"

\* C17 witness: a series of three in which the first two invocations of work
\* called back without error and the third with an error, which the final
\* callback was given
C17_Witness ==
    /\ seriesPc = "called"
    /\ seriesLog[1].times = 3
    /\ SeriesCount("work") = 3
    /\ SeriesSucceeded = 2
    /\ seriesLog[Len(seriesLog)].err = "e2"

(***************************************************************************)
(* Properties of run, preloadAssets and runSample                          *)
(***************************************************************************)
\* parse and updateProperties calls in flight
MutatingOps == {o \in inflight : o.kind \in {"parse", "update"}}

\* every operation started so far, in any sample
AllStarted == UNION {samples[s].started : s \in 1..Len(samples)}

EventsOf(type) == SelectSeq(fired, LAMBDA e : e.type = type)

\* run has been called and nothing is outstanding
Quiescent == runPc \in {"sampling", "failed"} /\ inflight = {}

\* C11: parse and updateProperties for the same worker tile never run
\* concurrently: for every tile at most one parse or updateProperties call is
\* in flight at any time, over the preload sample and all timed samples, and
\* every operation in flight belongs to the sample started last.
C11_OneMutationPerTile ==
    /\ \A o1 \in MutatingOps, o2 \in MutatingOps :
           (o1.tile = o2.tile \/ o1.wt = o2.wt) => o1 = o2
    /\ \A o \in inflight : o.sample = Len(samples)

\* C11 witness: in the second timed sample an updateProperties call is in
\* flight for every tile
C11_Witness ==
    /\ Len(samples) = 3
    /\ \A t \in Tiles : \E o \in MutatingOps : o.tile = t /\ o.kind = "update"

\* C12: __propertyData is assigned once per worker tile, on the branch without
\* data and together with the start of parse, and not changed afterwards:
\* every updateProperties call is given the property data captured when its
\* tile was decoded.
C12_PropertyDataCapturedOnce ==
    /\ \A o \in AllStarted :
           o.kind = "update" =>
               /\ o.arg # 0
               /\ o.arg = workerTileObjs[o.wt].propertyData
               /\ \E q \in AllStarted : q.kind = "parse" /\ q.wt = o.wt /\ q.arg = o.arg
    /\ \A q1 \in AllStarted, q2 \in AllStarted :
           (q1.kind = "parse" /\ q2.kind = "parse" /\ q1.wt = q2.wt) => q1 = q2
    /\ \A q \in AllStarted :
           q.kind = "parse" => workerTileObjs[q.wt].propertyData = q.arg
    /\ \A w \in 1..Len(workerTileObjs) :
           workerTileObjs[w].propertyData # 0 =>
               \E q \in AllStarted : q.kind = "parse" /\ q.wt = w

\* C12 witness: the third timed sample has started updateProperties for every
\* tile with property data captured in the preload sample
C12_Witness ==
    /\ Len(samples) = 4
    /\ \A t \in Tiles :
           \E o \in samples[4].started, q \in samples[1].started :
               /\ o.tile = t /\ o.kind = "update"
               /\ q.tile = t /\ q.kind = "parse" /\ q.arg = o.arg

\* C16: the callback given to runSample is invoked at most once for each
\* runSample invocation, whatever the outcomes of the tiles, and when it is
\* invoked without error every coordinate's operation has called back
\* successfully.
C16_SampleCallbackAtMostOnce ==
    \A s \in 1..Len(samples) :
        /\ Len(samples[s].callbacks) <= 1
        /\ \A j \in 1..Len(samples[s].callbacks) :
               samples[s].callbacks[j].err = "none" =>
                   samples[s].callbacks[j].succeeded = Tiles

\* C18: 'end' is fired at most once, only after the preload sample and exactly
\* SAMPLE_COUNT timed samples have each completed without error, with
\* timeCount = SAMPLE_COUNT and score = timeSum / SAMPLE_COUNT, and never in a
\* run in which 'error' has been fired.
C18_EndAfterAllSamples ==
    /\ Len(EventsOf("end")) <= 1
    /\ \A j \in 1..Len(fired) :
           fired[j].type = "end" =>
               /\ EventsOf("error") = <<>>
               /\ fired[j].timeCount = SAMPLE_COUNT
               /\ timeCount = SAMPLE_COUNT
               /\ fired[j].score = <<timeSum, SAMPLE_COUNT>>
               /\ fired[j].samples = SAMPLE_COUNT + 1
               /\ Len(samples) = SAMPLE_COUNT + 1
               /\ \A s \in 1..Len(samples) :
                      /\ samples[s].preload <=> s = 1
                      /\ samples[s].callbacks = <<[err |-> "none", succeeded |-> Tiles]>>

\* C18 witness: 'end' has been fired after samples of different durations
C18_Witness ==
    /\ EventsOf("end") # <<>>
    /\ timeSum = SAMPLE_COUNT + 3

\* C19: once every stylesheet fetch, style event, tile fetch, parse and
\* updateProperties of a run has called back, the run has fired 'end' or
\* 'error'; and no sample is started after an 'error'.
C19_TerminalEventFired ==
    /\ Quiescent => fired # <<>>
    /\ \A j \in 1..Len(fired) :
           fired[j].type = "error" => fired[j].samples = Len(samples)

\* C20: the preload sample creates a new WorkerTile for every coordinate and
\* handles every coordinate by fetch and parse, never by updateProperties;
\* every timed sample handles every coordinate by updateProperties with the
\* property data captured in the preload sample, and fetches and parses
\* nothing; there are at most SAMPLE_COUNT timed samples.
C20_TimedSamplesOnlyUpdate ==
    /\ Len(samples) <= SAMPLE_COUNT + 1
    /\ \A s \in 1..Len(samples) :
           IF s = 1
           THEN /\ samples[s].preload
                /\ Len(workerTileObjs) = NumTiles
                /\ \A t1 \in Tiles, t2 \in Tiles :
                       assetsWorkerTiles[t1] = assetsWorkerTiles[t2] => t1 = t2
                /\ \A t \in Tiles :
                       Op(1, t, "fetch", assetsWorkerTiles[t], 0) \in samples[s].started
                /\ \A o \in samples[s].started :
                       /\ o.kind \in {"fetch", "parse"}
                       /\ o.wt = assetsWorkerTiles[o.tile]
           ELSE /\ ~samples[s].preload
                /\ samples[1].callbacks = <<[err |-> "none", succeeded |-> Tiles]>>
                /\ samples[s].started =
                       {Op(s, t, "update", assetsWorkerTiles[t],
                           workerTileObjs[assetsWorkerTiles[t]].propertyData) : t \in Tiles}
                /\ \A o \in samples[s].started :
                       \E q \in samples[1].started :
                           q.kind = "parse" /\ q.wt = o.wt /\ q.arg = o.arg /\ q.arg # 0

\* C20 witness: all SAMPLE_COUNT timed samples have been started and the last
\* one is still waiting for a tile
C20_Witness ==
    /\ Len(samples) = SAMPLE_COUNT + 1
    /\ Cardinality(inflight) = 1
    /\ fired = <<>>

====
